---- MODULE Spec2Model ----
(***************************************************************************)
(* Model of pyUSBTraffic.py: the USBTrafficGenerator session (backend      *)
(* setup, device discovery and configuration, the transfer loop run by a   *)
(* daemon worker thread, stop) and the tkinter App that drives it from the *)
(* UI thread (Start button, Stop button, window close).  Spec is the      *)
(* program without its status display; SpecUI adds the timer callback      *)
(* update_status, which only writes the three labels.                      *)
(*                                                                         *)
(* Granularity: one step per Python statement that touches state shared    *)
(* between the UI thread and the worker threads; an augmented assignment   *)
(* to a counter (self.packet_count += 1) is two steps, the load of the     *)
(* attribute and the store of the sum, since the interpreter may switch    *)
(* threads between the two.  The UI thread is a sequential program         *)
(* (ui_pc), each worker thread is a sequential program (pc[t]); steps of   *)
(* different threads interleave freely.                                    *)
(*                                                                         *)
(* The USB library is the environment: usb.core.find answers from the set  *)
(* of attached devices (given no backend it may raise instead); every      *)
(* other library call either succeeds or raises (usb.core.USBError with    *)
(* some errno, for a call on a device); a call through a handle that is    *)
(* None raises AttributeError.                                             *)
(***************************************************************************)
EXTENDS Integers, Sequences, FiniteSets, TLC

(***************************************************************************)
(* Program constants.                                                      *)
(***************************************************************************)
LUMIDIGM_VID == 8110
LUMIDIGM_PID == 19
PACKET_SIZE == 64
TIMEOUT_ERRNO == -7
ENDPOINT_TYPE_BULK == 2
ENDPOINT_OUT == 0

(***************************************************************************)
(* Bounds of the model.                                                    *)
(***************************************************************************)
MaxThreads == 2
MaxIterations == 2

(***************************************************************************)
(* Values.                                                                 *)
(***************************************************************************)
\* Python's None for a device handle / an endpoint.
None == << >>

\* A device on the bus is the pair <<idVendor, idProduct>>.
\* The devices that may be attached: the Lumidigm sensor, one with its vendor
\* id and another product id, one with its product id and another vendor id.
Devices == { <<LUMIDIGM_VID, LUMIDIGM_PID>>,
             <<LUMIDIGM_VID, LUMIDIGM_PID + 1>>,
             <<LUMIDIGM_VID + 1, LUMIDIGM_PID>> }

idVendor(dev) == dev[1]
idProduct(dev) == dev[2]

\* An endpoint descriptor is <<bEndpointAddress, bmAttributes>>.
bEndpointAddress(ep) == ep[1]
bmAttributes(ep) == ep[2]

\* The endpoint lists of interface (0,0) the attached device may have.
Layouts == { << <<2, 2>>, <<129, 2>> >>,
             << <<2, 2>> >>,
             << <<1, 3>>, <<129, 2>> >>,
             << >> }

\* Exceptions: <<class, errno>>.
NoError == <<"None", 0>>
AttributeError == <<"AttributeError", 0>>
USBError(errno) == <<"USBError", errno>>
\* errno values of the USBErrors the library raises: the one line 175 ignores
\* and EIO.
Errnos == {TIMEOUT_ERRNO, 5}

\* Byte counts a write may report / a read may return.
WriteLens == {PACKET_SIZE \div 2, PACKET_SIZE}
ReadLens == {0, PACKET_SIZE}

\* Indices of the entries of libusb_paths (lines 44-48).
LibusbPaths == {1, 2, 3}

Threads == 1..MaxThreads

\* The positions of an iteration after its write (lines 164-179).
WrittenPcs == {"gt_pkt", "gt_pkt_st", "gt_byte", "gt_byte_st", "gt_read", "gt_rbyte",
               "gt_rbyte_st", "gt_sleep"}

\* The positions of the loop body (lines 160-179).
LoopBodyPcs == WrittenPcs \cup {"gt_write"}

\* The positions of the while statement and its body (lines 159-186).
LoopPcs == LoopBodyPcs \cup {"gt_while"}

VARIABLES
    platform,         \* platform.system(): "Windows" or "Linux"
    intf,             \* endpoints of cfg[(0,0)] of the Lumidigm device
    all_devices,      \* find_device's local all_devices, until the lookup is done
    running,          \* self.running
    device,           \* self.device
    packet_count,     \* self.packet_count
    byte_count,       \* self.byte_count
    backend,          \* self.backend
    setup_complete,   \* self._setup_complete
    traffic_thread,   \* self.traffic_thread: id of the last thread started, 0 = None
    start_btn,        \* state of App.start_btn
    stop_btn,         \* state of App.stop_btn
    ui_pc,            \* position of the UI thread
    closing,          \* the UI thread is inside on_close (not App.stop_traffic)
    find_result,      \* outcome of the find_device call start_traffic waits for
    warned,           \* warnings logged by that find_device call
    pc,               \* position of each worker thread
    ep_out,           \* generate_traffic's local ep_out, per thread
    ep_in,            \* generate_traffic's local ep_in, per thread
    written,          \* the current iteration's local written, per thread
    received,         \* the current iteration's len(data_in), per thread
    loaded,           \* the counter value an augmented assignment has loaded
    raised,           \* exception raised in the thread's current iteration
    message,          \* error box the thread shows before it leaves
    counted,          \* what the iteration's stores added to the packet count loaded
    added,            \* what the iteration's stores added to the byte count loaded
    iterations,       \* loop iterations completed so far, by all threads
    allFull,          \* every write and read so far moved 64 bytes
    stop_seen,        \* threads that were in the loop when stop_traffic was called
    status_label,     \* text of App.status_label
    packet_label,     \* text of App.packet_label
    byte_label        \* text of App.byte_label

env == <<platform, intf>>
session == <<running, device, packet_count, byte_count, backend, setup_complete,
             traffic_thread>>
ui == <<start_btn, stop_btn, ui_pc, closing, find_result, warned, all_devices>>
locals == <<ep_out, ep_in, written, received, loaded, raised, message, counted,
            added>>
history == <<iterations, allFull, stop_seen>>
labels == <<status_label, packet_label, byte_label>>
vars == <<env, session, ui, pc, locals, history, labels>>

\* The decimal digits, as str() writes them.
digits == <<"0", "1", "2", "3", "4", "5", "6", "7", "8", "9">>

\* str(n) for a non-negative int: its decimal digits, most significant first.
RECURSIVE str(_)
str(n) ==
    IF n < 10
    THEN <<digits[n + 1]>>
    ELSE Append(str(n \div 10), digits[(n % 10) + 1])

(***************************************************************************)
(* USBTrafficGenerator.__init__ and App.__init__ / setup_ui.               *)
(***************************************************************************)
Init ==
    /\ platform \in {"Windows", "Linux"}
    /\ intf \in Layouts
    /\ all_devices = {}
    /\ running = FALSE
    /\ device = None
    /\ packet_count = 0
    /\ byte_count = 0
    /\ backend = "None"
    /\ setup_complete = FALSE
    /\ traffic_thread = 0
    /\ start_btn = "normal"
    /\ stop_btn = "disabled"
    /\ ui_pc = "idle"
    /\ closing = FALSE
    /\ find_result = "none"
    /\ warned = {}
    /\ pc = [t \in Threads |-> "unborn"]
    /\ ep_out = [t \in Threads |-> None]
    /\ ep_in = [t \in Threads |-> None]
    /\ written = [t \in Threads |-> 0]
    /\ received = [t \in Threads |-> 0]
    /\ loaded = [t \in Threads |-> 0]
    /\ raised = [t \in Threads |-> NoError]
    /\ message = [t \in Threads |-> "none"]
    /\ counted = [t \in Threads |-> 0]
    /\ added = [t \in Threads |-> 0]
    /\ iterations = 0
    /\ allFull = TRUE
    /\ stop_seen = {}
    /\ status_label = "Ready"
    /\ packet_label = str(0)
    /\ byte_label = str(0)

(***************************************************************************)
(* Pure helpers.                                                           *)
(***************************************************************************)
\* usb.util.endpoint_type: bmAttributes & 0x03.
endpoint_type(attrs) == attrs % 4

\* usb.util.endpoint_direction: bEndpointAddress & 0x80.
endpoint_direction(addr) == ((addr \div 128) % 2) * 128

\* The endpoint scan of generate_traffic: the last bulk OUT endpoint and the
\* last bulk non-OUT endpoint of the interface, None where there is none.
RECURSIVE ScanEndpoints(_, _, _)
ScanEndpoints(eps, out, in) ==
    IF eps = << >> THEN <<out, in>>
    ELSE LET ep == Head(eps) IN
         IF endpoint_type(bmAttributes(ep)) = ENDPOINT_TYPE_BULK
         THEN IF endpoint_direction(bEndpointAddress(ep)) = ENDPOINT_OUT
              THEN ScanEndpoints(Tail(eps), ep, in)
              ELSE ScanEndpoints(Tail(eps), out, ep)
         ELSE ScanEndpoints(Tail(eps), out, in)

\* Faulty variant of FindEndpoints: the first endpoint is taken as the OUT
\* endpoint whatever its type and direction.
FindEndpointsFirst(eps) ==
    IF eps = << >> THEN <<None, None>> ELSE <<Head(eps), None>>

FindEndpoints(eps) == ScanEndpoints(eps, None, None)

\* Faulty variant of UsbFind: the product id is not compared.
UsbFindVendor(b, vid, pid) ==
    IF \E d \in b : idVendor(d) = vid
    THEN CHOOSE d \in b : idVendor(d) = vid
    ELSE None

\* usb.core.find(idVendor=vid, idProduct=pid): a matching device, or None.
UsbFind(b, vid, pid) ==
    IF \E d \in b : idVendor(d) = vid /\ idProduct(d) = pid
    THEN CHOOSE d \in b : idVendor(d) = vid /\ idProduct(d) = pid
    ELSE None

\* setup_backend: the value returned, self.backend and self._setup_complete
\* after it.  cur: self.backend before; exists: the entries of libusb_paths
\* that exist; gb: what get_backend does (it returns a backend, returns None,
\* or raises).  The Windows branch fails when self.backend is None after the
\* search; the other branch takes whatever get_backend returned.
SetupBackend(plat, cur, exists, gb) ==
    LET got == IF gb = "backend" THEN "libusb1" ELSE "None"
        new == IF plat = "Windows" /\ exists = {} THEN cur ELSE got
    IN  IF gb = "raise" /\ ~(plat = "Windows" /\ exists = {})
        THEN [ok |-> FALSE, backend |-> cur, complete |-> FALSE]
        ELSE IF plat = "Windows" /\ new = "None"
        THEN [ok |-> FALSE, backend |-> new, complete |-> FALSE]
        ELSE [ok |-> TRUE, backend |-> new, complete |-> TRUE]

\* Faulty variant of AfterSetup: the result of setup_backend is not looked at.
AfterSetupAlways(ok) == "fd_enum"

\* Lines 75-76: where find_device goes after setup_backend.
AfterSetup(ok) == IF ok THEN "fd_enum" ELSE "fd_false"

\* Faulty variant of ConfigureWindows: a set_configuration error is fatal.
ConfigureWindowsStrict(resetOk, cfgOk) == cfgOk

\* The Windows branch of find_device (lines 99-113): reset and
\* set_configuration are tried, their failures logged as warnings; the branch
\* never fails.
ConfigureWindows(resetOk, cfgOk) == TRUE

\* The warnings the Windows branch logs (lines 105, 113).
WarningsWindows(resetOk, cfgOk) ==
    (IF resetOk THEN {} ELSE {"reset"}) \cup (IF cfgOk THEN {} ELSE {"config"})

\* The Linux/Mac branch of find_device (lines 116-121): an exception of
\* is_kernel_driver_active, detach_kernel_driver or set_configuration reaches
\* the handler of line 126, which returns False.
ConfigureOther(kd, detachOk, cfgOk) ==
    /\ kd # "raise"
    /\ (kd = "active" => detachOk)
    /\ cfgOk

\* Faulty variant of ReadErrorIgnored: a read timeout is raised like any error.
ReadErrorIgnoredNever(exc) == FALSE

\* Line 175: the read error the loop ignores.
ReadErrorIgnored(exc) == exc[2] = TIMEOUT_ERRNO

\* Faulty variant of CountPacket: a packet is counted twice.
CountPacketTwice(count) == count + 2

\* Line 164: the packet counter after a write.
CountPacket(count) == count + 1

\* Faulty variant of CountBytes: the packet size is added, not the bytes moved.
CountBytesFixed(count, n) == count + PACKET_SIZE

\* Lines 165 and 172: the byte counter after n more bytes moved.
CountBytes(count, n) == count + n

(***************************************************************************)
(* The UI thread: App.start_traffic and find_device.                       *)
(***************************************************************************)
\* Start button clicked: start_traffic calls find_device, which runs
\* setup_backend unless a backend is set up already (lines 74-76).
ClickStart ==
    /\ ui_pc = "idle"
    /\ start_btn = "normal"
    /\ traffic_thread < MaxThreads
    /\ \E exists \in SUBSET LibusbPaths, gb \in {"backend", "none", "raise"} :
          LET r == SetupBackend(platform, backend, exists, gb) IN
          IF setup_complete
          THEN /\ ui_pc' = "fd_enum"
               /\ UNCHANGED <<labels, backend, setup_complete, find_result>>
          ELSE /\ backend' = r.backend
               /\ setup_complete' = r.complete
               /\ ui_pc' = AfterSetup(r.ok)
               /\ find_result' = IF r.ok THEN "none" ELSE "BackendNotFound"
    /\ UNCHANGED <<labels, env, running, device, packet_count, byte_count, traffic_thread,
                   start_btn, stop_btn, closing, warned, all_devices, pc, locals,
                   history>>

\* Lines 79-82: every attached device is enumerated (and logged).  Given no
\* backend (backend=None) usb.core.find looks for one itself and raises when
\* it finds none: the handler of line 126 then returns False.
FindDeviceEnumerate ==
    /\ ui_pc = "fd_enum"
    /\ \/ /\ \E b \in SUBSET Devices : all_devices' = b
          /\ ui_pc' = "fd_lookup"
          /\ UNCHANGED find_result
       \/ /\ backend = "None"
          /\ ui_pc' = "fd_false"
          /\ find_result' = "ConfigurationFailed"
          /\ UNCHANGED all_devices
    /\ UNCHANGED <<labels, env, session, start_btn, stop_btn, closing, warned, pc, locals,
                   history>>

\* Lines 85-94: the Lumidigm device is looked up among the attached devices.
FindDeviceLookup ==
    /\ ui_pc = "fd_lookup"
    /\ device' = UsbFind(all_devices, LUMIDIGM_VID, LUMIDIGM_PID)
    /\ ui_pc' = IF device' = None THEN "fd_false" ELSE "fd_config"
    /\ find_result' = IF device' = None THEN "DeviceNotFound" ELSE "none"
    /\ all_devices' = {}
    /\ UNCHANGED <<labels, env, running, packet_count, byte_count, backend, setup_complete,
                   traffic_thread, start_btn, stop_btn, closing, warned, pc, locals,
                   history>>

\* Faulty variant of AfterFind: start_traffic goes on whatever find_device
\* returned.
AfterFindAlways(found) == "st_run"

\* Line 281: where start_traffic goes with the value find_device returned.
AfterFind(found) == IF found THEN "st_run" ELSE "idle"

\* Lines 98-129: the platform's configuration calls.
FindDeviceConfigure ==
    /\ ui_pc = "fd_config"
    /\ \E resetOk \in BOOLEAN, cfgOk \in BOOLEAN, detachOk \in BOOLEAN,
          kd \in {"active", "inactive", "raise"} :
          LET ok == IF platform = "Windows"
                    THEN ConfigureWindows(resetOk, cfgOk)
                    ELSE ConfigureOther(kd, detachOk, cfgOk) IN
          /\ warned' = IF platform = "Windows"
                       THEN WarningsWindows(resetOk, cfgOk) ELSE {}
          /\ ui_pc' = IF ok THEN AfterFind(TRUE) ELSE "fd_false"
          /\ find_result' = IF ok THEN "Configured" ELSE "ConfigurationFailed"
    /\ UNCHANGED <<labels, env, session, start_btn, stop_btn, closing, all_devices, pc, locals,
                   history>>

\* Line 281, find_device returned False: start_traffic does nothing more.
StartFailed ==
    /\ ui_pc = "fd_false"
    /\ ui_pc' = AfterFind(FALSE)
    /\ find_result' = "none"
    /\ warned' = {}
    /\ UNCHANGED <<labels, env, session, start_btn, stop_btn, closing, all_devices, pc, locals,
                   history>>

\* Faulty variant of config: the widget keeps the state it had.
configIgnored(state, new) == state

\* Button.config(state=...), lines 283-284 and 292-293: the widget takes the
\* state it is given.
config(state, new) == new

\* Line 282, find_device returned True.
StartRun ==
    /\ ui_pc = "st_run"
    /\ running' = TRUE
    /\ ui_pc' = "st_thread"
    /\ find_result' = "none"
    /\ UNCHANGED <<labels, env, device, packet_count, byte_count, backend, setup_complete,
                   traffic_thread, start_btn, stop_btn, closing, warned, all_devices,
                   pc, locals, history>>

\* Lines 283-287: the buttons, then the worker thread is created and started.
StartThread ==
    /\ ui_pc = "st_thread"
    /\ start_btn' = config(start_btn, "disabled")
    /\ stop_btn' = config(stop_btn, "normal")
    /\ traffic_thread' = traffic_thread + 1
    /\ pc' = [pc EXCEPT ![traffic_thread + 1] = "gt_check"]
    /\ ui_pc' = "idle"
    /\ warned' = {}
    /\ UNCHANGED <<labels, env, running, device, packet_count, byte_count, backend,
                   setup_complete, closing, find_result, all_devices, locals, history>>

(***************************************************************************)
(* The UI thread: App.stop_traffic, App.on_close and                       *)
(* USBTrafficGenerator.stop_traffic.                                       *)
(***************************************************************************)
\* Faulty variant of StoppedFlag: stop leaves the flag alone.
StoppedFlagKept(flag) == flag

\* Faulty variant of StoppedFlag: stop toggles the flag.
StoppedFlagToggle(flag) == ~flag

\* Line 197: what stop_traffic leaves in self.running.
StoppedFlag(flag) == FALSE

\* Line 197, the first statement of USBTrafficGenerator.stop_traffic.
StopFlag ==
    /\ running' = StoppedFlag(running)
    /\ ui_pc' = "sp_release"
    /\ stop_seen' = stop_seen \cup {t \in Threads : pc[t] \in LoopPcs}
    /\ UNCHANGED <<labels, env, device, packet_count, byte_count, backend, setup_complete,
                   traffic_thread, start_btn, stop_btn, find_result, warned,
                   all_devices, pc, locals, iterations, allFull>>

\* Stop button clicked: App.stop_traffic calls generator.stop_traffic.
ClickStop ==
    /\ ui_pc = "idle"
    /\ stop_btn = "normal"
    /\ closing' = FALSE
    /\ StopFlag

\* Window closed: on_close calls generator.stop_traffic.
CloseWindow ==
    /\ ui_pc = "idle"
    /\ closing' = TRUE
    /\ StopFlag

\* Faulty variant of ReleasedDevice: stop_traffic keeps the handle.
ReleasedDeviceKept(dev) == dev

\* What lines 198-205 leave in self.device.
ReleasedDevice(dev) == None

\* What stop_traffic leaves in the counters: it does not touch them.
StoppedCount(count) == count

\* Lines 198-206: the resources are disposed of (a failure is swallowed) and
\* the handle is cleared; then lines 292-293 (buttons) or line 298 (destroy).
StopRelease ==
    /\ ui_pc = "sp_release"
    /\ device' = ReleasedDevice(device)
    /\ packet_count' = StoppedCount(packet_count)
    /\ byte_count' = StoppedCount(byte_count)
    /\ IF closing
       THEN /\ ui_pc' = "closed"
            /\ UNCHANGED <<labels, start_btn, stop_btn>>
       ELSE /\ ui_pc' = "idle"
            /\ start_btn' = config(start_btn, "normal")
            /\ stop_btn' = config(stop_btn, "disabled")
    /\ UNCHANGED <<labels, env, running, backend, setup_complete, traffic_thread, closing,
                   find_result, warned, all_devices, pc, locals, history>>

(***************************************************************************)
(* A worker thread: USBTrafficGenerator.generate_traffic.                  *)
(***************************************************************************)
\* The thread's locals are gone once generate_traffic has returned.
Leave(t) ==
    /\ pc' = [pc EXCEPT ![t] = "done"]
    /\ ep_out' = [ep_out EXCEPT ![t] = None]
    /\ ep_in' = [ep_in EXCEPT ![t] = None]
    /\ written' = [written EXCEPT ![t] = 0]
    /\ received' = [received EXCEPT ![t] = 0]
    /\ loaded' = [loaded EXCEPT ![t] = 0]
    /\ raised' = [raised EXCEPT ![t] = NoError]
    /\ message' = [message EXCEPT ![t] = "none"]
    /\ counted' = [counted EXCEPT ![t] = 0]
    /\ added' = [added EXCEPT ![t] = 0]

\* An exception leaves the try block for the finally block: through the loop's
\* handlers (lines 181-186, break) or the outer handler (lines 188-190).
Raise(t, exc, msg) ==
    /\ raised' = [raised EXCEPT ![t] = exc]
    /\ message' = [message EXCEPT ![t] = msg]
    /\ pc' = [pc EXCEPT ![t] = "gt_finally"]

\* Lines 133-135: without a device the thread returns before the try block.
GtCheck(t) ==
    /\ pc[t] = "gt_check"
    /\ pc' = [pc EXCEPT ![t] = IF device = None THEN "done" ELSE "gt_cfg"]
    /\ UNCHANGED <<labels, env, session, ui, locals, history>>

\* Lines 138-158: the active configuration is read and its endpoints scanned.
GtConfigure(t) ==
    /\ pc[t] = "gt_cfg"
    /\ IF device = None
       THEN /\ Raise(t, AttributeError, "TrafficGenerationFailed")
            /\ UNCHANGED <<labels, ep_out, ep_in>>
       ELSE \E ok \in BOOLEAN, errno \in Errnos :
               IF ok
               THEN LET eps == FindEndpoints(intf) IN
                    /\ ep_out' = [ep_out EXCEPT ![t] = eps[1]]
                    /\ ep_in' = [ep_in EXCEPT ![t] = eps[2]]
                    /\ message' = [message EXCEPT ![t] =
                                     IF eps[1] = None THEN "NoOutputEndpoint" ELSE "none"]
                    /\ pc' = [pc EXCEPT ![t] =
                                IF eps[1] = None THEN "gt_finally" ELSE "gt_while"]
                    /\ UNCHANGED raised
               ELSE /\ Raise(t, USBError(errno), "TrafficGenerationFailed")
                    /\ UNCHANGED <<labels, ep_out, ep_in>>
    /\ UNCHANGED <<labels, env, session, ui, written, received, loaded, counted, added,
                   history>>

\* Line 159: the loop condition.
GtWhile(t) ==
    /\ pc[t] = "gt_while"
    /\ pc' = [pc EXCEPT ![t] = IF running THEN "gt_write" ELSE "gt_finally"]
    /\ UNCHANGED <<labels, env, session, ui, locals, history>>

\* Lines 162-163: a packet is generated and written.
GtWrite(t) ==
    /\ pc[t] = "gt_write"
    /\ iterations + Cardinality({u \in Threads : pc[u] \in WrittenPcs}) < MaxIterations
    /\ IF device = None
       THEN /\ Raise(t, AttributeError, "none")
            /\ allFull' = FALSE
            /\ UNCHANGED written
       ELSE \E ok \in BOOLEAN, n \in WriteLens, errno \in Errnos :
               IF ok
               THEN /\ written' = [written EXCEPT ![t] = n]
                    /\ allFull' = (allFull /\ n = PACKET_SIZE)
                    /\ pc' = [pc EXCEPT ![t] = "gt_pkt"]
                    /\ UNCHANGED <<labels, raised, message>>
               ELSE /\ Raise(t, USBError(errno), "none")
                    /\ allFull' = FALSE
                    /\ UNCHANGED written
    /\ UNCHANGED <<labels, env, session, ui, ep_out, ep_in, received, loaded, counted, added,
                   iterations, stop_seen>>

\* An augmented assignment loads the counter: the thread goes to its store.
Load(t, count, next) ==
    /\ loaded' = [loaded EXCEPT ![t] = count]
    /\ pc' = [pc EXCEPT ![t] = next]
    /\ UNCHANGED <<labels, env, session, ui, ep_out, ep_in, written, received, raised,
                   message, counted, added, history>>

\* Line 164, self.packet_count is loaded.
GtLoadPackets(t) ==
    /\ pc[t] = "gt_pkt"
    /\ Load(t, packet_count, "gt_pkt_st")

\* Line 164, the sum is stored.
GtStorePackets(t) ==
    /\ pc[t] = "gt_pkt_st"
    /\ packet_count' = CountPacket(loaded[t])
    /\ counted' = [counted EXCEPT ![t] = counted[t] + (packet_count' - loaded[t])]
    /\ loaded' = [loaded EXCEPT ![t] = 0]
    /\ pc' = [pc EXCEPT ![t] = "gt_byte"]
    /\ UNCHANGED <<labels, env, running, device, byte_count, backend, setup_complete,
                   traffic_thread, ui, ep_out, ep_in, written, received, raised,
                   message, added, history>>

\* Line 165, self.byte_count is loaded.
GtLoadWritten(t) ==
    /\ pc[t] = "gt_byte"
    /\ Load(t, byte_count, "gt_byte_st")

\* Line 165, the sum is stored.
GtStoreWritten(t) ==
    /\ pc[t] = "gt_byte_st"
    /\ byte_count' = CountBytes(loaded[t], written[t])
    /\ added' = [added EXCEPT ![t] = added[t] + (byte_count' - loaded[t])]
    /\ loaded' = [loaded EXCEPT ![t] = 0]
    /\ pc' = [pc EXCEPT ![t] = "gt_read"]
    /\ UNCHANGED <<labels, env, running, device, packet_count, backend, setup_complete,
                   traffic_thread, ui, ep_out, ep_in, written, received, raised,
                   message, counted, history>>

\* Lines 169-177: the read, when the device has a bulk IN endpoint.
GtRead(t) ==
    /\ pc[t] = "gt_read"
    /\ IF ep_in[t] = None
       THEN /\ pc' = [pc EXCEPT ![t] = "gt_sleep"]
            /\ UNCHANGED <<labels, received, raised, message, allFull>>
       ELSE IF device = None
            THEN /\ Raise(t, AttributeError, "none")
                 /\ allFull' = FALSE
                 /\ UNCHANGED received
            ELSE \E ok \in BOOLEAN, n \in ReadLens, errno \in Errnos :
                    IF ok
                    THEN /\ received' = [received EXCEPT ![t] = n]
                         /\ allFull' = (allFull /\ n = PACKET_SIZE)
                         /\ pc' = [pc EXCEPT ![t] = "gt_rbyte"]
                         /\ UNCHANGED <<labels, raised, message>>
                    ELSE /\ raised' = [raised EXCEPT ![t] = USBError(errno)]
                         /\ allFull' = FALSE
                         /\ pc' = [pc EXCEPT ![t] =
                                     IF ReadErrorIgnored(USBError(errno))
                                     THEN "gt_sleep" ELSE "gt_finally"]
                         /\ UNCHANGED <<labels, received, message>>
    /\ UNCHANGED <<labels, env, session, ui, ep_out, ep_in, written, loaded, counted, added,
                   iterations, stop_seen>>

\* Line 172, self.byte_count is loaded.
GtLoadReceived(t) ==
    /\ pc[t] = "gt_rbyte"
    /\ Load(t, byte_count, "gt_rbyte_st")

\* Line 172, the sum is stored.
GtStoreReceived(t) ==
    /\ pc[t] = "gt_rbyte_st"
    /\ byte_count' = CountBytes(loaded[t], received[t])
    /\ added' = [added EXCEPT ![t] = added[t] + (byte_count' - loaded[t])]
    /\ loaded' = [loaded EXCEPT ![t] = 0]
    /\ pc' = [pc EXCEPT ![t] = "gt_sleep"]
    /\ UNCHANGED <<labels, env, running, device, packet_count, backend, setup_complete,
                   traffic_thread, ui, ep_out, ep_in, written, received, raised,
                   message, counted, history>>

\* Line 179: the delay that ends an iteration.
GtSleep(t) ==
    /\ pc[t] = "gt_sleep"
    /\ iterations' = iterations + 1
    /\ pc' = [pc EXCEPT ![t] = "gt_while"]
    /\ written' = [written EXCEPT ![t] = 0]
    /\ received' = [received EXCEPT ![t] = 0]
    /\ raised' = [raised EXCEPT ![t] = NoError]
    /\ counted' = [counted EXCEPT ![t] = 0]
    /\ added' = [added EXCEPT ![t] = 0]
    /\ UNCHANGED <<labels, env, session, ui, ep_out, ep_in, loaded, message, allFull,
                   stop_seen>>

\* Faulty variant of FinallyFlag: the finally block leaves the flag alone.
FinallyFlagKeep(flag) == flag

\* Line 192: what the finally block leaves in self.running.
FinallyFlag(flag) == FALSE

\* Lines 191-193: the finally block, then the thread ends.
GtFinally(t) ==
    /\ pc[t] = "gt_finally"
    /\ running' = FinallyFlag(running)
    /\ Leave(t)
    /\ stop_seen' = stop_seen \ {t}
    /\ UNCHANGED <<labels, env, device, packet_count, byte_count, backend, setup_complete,
                   traffic_thread, ui, iterations, allFull>>

(***************************************************************************)
(* The program.                                                            *)
(***************************************************************************)
Next ==
    \/ ClickStart
    \/ FindDeviceEnumerate
    \/ FindDeviceLookup
    \/ FindDeviceConfigure
    \/ StartFailed
    \/ StartRun
    \/ StartThread
    \/ ClickStop
    \/ CloseWindow
    \/ StopRelease
    \/ \E t \in Threads : GtCheck(t)
    \/ \E t \in Threads : GtConfigure(t)
    \/ \E t \in Threads : GtWhile(t)
    \/ \E t \in Threads : GtWrite(t)
    \/ \E t \in Threads : GtLoadPackets(t)
    \/ \E t \in Threads : GtStorePackets(t)
    \/ \E t \in Threads : GtLoadWritten(t)
    \/ \E t \in Threads : GtStoreWritten(t)
    \/ \E t \in Threads : GtRead(t)
    \/ \E t \in Threads : GtLoadReceived(t)
    \/ \E t \in Threads : GtStoreReceived(t)
    \/ \E t \in Threads : GtSleep(t)
    \/ \E t \in Threads : GtFinally(t)

Spec == Init /\ [][Next]_vars

(***************************************************************************)
(* App.update_status, the 100 ms timer callback.  It runs on the UI thread *)
(* between the other callbacks, and re-arms itself every time (line 276).  *)
(***************************************************************************)
UpdateStatus ==
    /\ ui_pc = "idle"
    /\ status_label' = IF running THEN "Running" ELSE "Ready"
    /\ packet_label' = str(packet_count)
    /\ byte_label' = str(byte_count)
    /\ UNCHANGED <<env, session, ui, pc, locals, history>>

NextUI ==
    \/ Next
    \/ UpdateStatus

\* The program with its status display.
SpecUI == Init /\ [][NextUI]_vars

(***************************************************************************)
(* Properties.                                                             *)
(***************************************************************************)
Target == <<LUMIDIGM_VID, LUMIDIGM_PID>>

\* The UI thread takes a step of USBTrafficGenerator.stop_traffic.
StopTrafficStep ==
    \/ ui_pc = "idle" /\ ui_pc' = "sp_release"
    \/ ui_pc = "sp_release" /\ ui_pc' # "sp_release"

\* The attached Lumidigm device has no bulk OUT endpoint.
NoBulkOut ==
    \A i \in DOMAIN intf :
        \/ endpoint_type(bmAttributes(intf[i])) # ENDPOINT_TYPE_BULK
        \/ endpoint_direction(bEndpointAddress(intf[i])) # ENDPOINT_OUT

\* C1: at most one worker thread is inside the loop of generate_traffic at
\* any time, for every sequence of start and stop clicks and every
\* interleaving with the worker threads.
C1_AtMostOneLoop ==
    Cardinality({t \in Threads : pc[t] \in LoopBodyPcs}) <= 1

\* C2: a read that fails with the timed-out error (errno -7) leaves the thread
\* in the loop and the running flag as it was; any other read error and any
\* write error (a write timeout too) takes the thread out of the loop in
\* that iteration, and a thread that has left the loop issues no further
\* write or read.
C2_TimeoutContinuesErrorsBreak ==
    [][\A t \in Threads :
          /\ (pc[t] = "gt_read" /\ pc'[t] # "gt_read"
                /\ raised'[t] = USBError(TIMEOUT_ERRNO))
             => (pc'[t] = "gt_sleep" /\ running' = running)
          /\ (pc[t] = "gt_read" /\ pc'[t] # "gt_read"
                /\ raised'[t] \notin {NoError, USBError(TIMEOUT_ERRNO)})
             => pc'[t] = "gt_finally"
          /\ (pc[t] = "gt_write" /\ pc'[t] # "gt_write" /\ raised'[t] # NoError)
             => pc'[t] = "gt_finally"
          /\ pc[t] \in {"gt_finally", "done"} => pc'[t] \in {"gt_finally", "done"}
      ]_vars

\* C2 witness: a thread whose read has just timed out is at the end of the
\* iteration, still in the loop.
C2_Witness ==
    \E t \in Threads : pc[t] = "gt_sleep" /\ raised[t] = USBError(TIMEOUT_ERRNO)

\* C3 as stated: a completed iteration has added exactly 1 to packet_count
\* and exactly the bytes written to byte_count, whatever the read did.
C3_Original ==
    \A t \in Threads :
        pc[t] = "gt_sleep" => counted[t] = 1 /\ added[t] = written[t]

\* C3 amended: an iteration whose write succeeds executes packet_count += 1
\* once and byte_count += n for the bytes written and, when its read succeeds,
\* for the bytes received as well, each adding to the value the statement
\* loaded; an iteration whose write fails adds nothing.  While the session's
\* worker is the only one started, the value loaded is still the counter's
\* value at the store, so these are the counters' increases.
C3_IterationCounts ==
    /\ \A t \in Threads :
          /\ pc[t] = "gt_sleep" =>
                counted[t] = 1 /\ added[t] = written[t] + received[t]
          /\ pc[t] = "gt_finally" =>
                /\ counted[t] \in {0, 1}
                /\ added[t] = written[t] + received[t]
                /\ counted[t] = 0 => added[t] = 0
    /\ traffic_thread = 1 =>
          /\ pc[1] = "gt_pkt_st" => loaded[1] = packet_count
          /\ pc[1] \in {"gt_byte_st", "gt_rbyte_st"} => loaded[1] = byte_count

\* C3 witness: an iteration has written half a packet and read a whole one.
C3_Witness ==
    \E t \in Threads :
        /\ pc[t] = "gt_sleep"
        /\ written[t] = PACKET_SIZE \div 2
        /\ received[t] = PACKET_SIZE
        /\ added[t] = PACKET_SIZE + PACKET_SIZE \div 2

\* C4: no step (start, stop, restart, loop iteration, transfer error, window
\* close) lowers packet_count or byte_count.
C4_CountersMonotonic ==
    [][packet_count' >= packet_count /\ byte_count' >= byte_count]_vars

\* C5 as stated: with no bulk OUT endpoint on the device no thread enters the
\* loop, the counters stay unchanged, the running flag is false once the
\* worker has ended, and every worker ends with NoOutputEndpoint.
C5_Original ==
    NoBulkOut =>
        /\ \A t \in Threads : pc[t] \notin LoopPcs
        /\ packet_count = 0 /\ byte_count = 0
        /\ (ui_pc \in {"idle", "closed"} /\ \A t \in Threads : pc[t] \in {"unborn", "done"})
              => ~running
        /\ \A t \in Threads : pc[t] = "gt_finally" => message[t] = "NoOutputEndpoint"

\* C5 amended: with no bulk OUT endpoint on the device no thread enters the
\* loop (so no write or read is issued), the counters stay unchanged and the
\* running flag is false once the worker has ended; the worker reports
\* NoOutputEndpoint whenever it has read the active configuration (it ends
\* with another error when get_active_configuration raises or stop has
\* cleared the handle first).
C5_NoOutputEndpoint ==
    NoBulkOut =>
        /\ \A t \in Threads : pc[t] \notin LoopPcs
        /\ packet_count = 0 /\ byte_count = 0
        /\ (ui_pc \in {"idle", "closed"} /\ \A t \in Threads : pc[t] \in {"unborn", "done"})
              => ~running
        /\ \A t \in Threads :
              (pc[t] = "gt_finally" /\ raised[t] = NoError)
                 => message[t] = "NoOutputEndpoint"

\* C5 witness: a worker has scanned the endpoints of such a device and is
\* about to leave with NoOutputEndpoint.
C5_Witness ==
    /\ NoBulkOut
    /\ \E t \in Threads : pc[t] = "gt_finally" /\ message[t] = "NoOutputEndpoint"

\* C6: a step of stop_traffic taken while the running flag is false leaves
\* packet_count and byte_count unchanged and the running flag false.
C6_StopWhenNotRunning ==
    [][(StopTrafficStep /\ ~running) =>
          (packet_count' = packet_count /\ byte_count' = byte_count /\ ~running')]_vars

\* C6 witness: the window was closed after a stop click, so stop_traffic ran
\* on a session already stopped, with packets counted before.
C6_Witness ==
    /\ ui_pc = "closed"
    /\ traffic_thread >= 1
    /\ start_btn = "normal"
    /\ packet_count >= 1
    /\ ~running

\* C7: on a device with bulk OUT 0x02 and bulk IN 0x81, when the one session
\* started so far has completed N iterations, every write and read having
\* moved the full 64 bytes, and is between iterations, packet_count = N and
\* byte_count = 128 * N.
C7_FullIterations ==
    (/\ intf = << <<2, 2>>, <<129, 2>> >>
     /\ traffic_thread = 1
     /\ allFull
     /\ pc[1] \in {"gt_while", "gt_finally", "done"})
    => (packet_count = iterations /\ byte_count = 2 * PACKET_SIZE * iterations)

\* C7 witness: the session has completed at least one such iteration.
C7_Witness ==
    /\ intf = << <<2, 2>>, <<129, 2>> >>
    /\ traffic_thread = 1
    /\ allFull
    /\ pc[1] = "gt_while"
    /\ iterations = MaxIterations
    /\ byte_count = 2 * PACKET_SIZE * iterations

C11_StopWithinOneIteration ==
    [][\A t \in stop_seen : ~(pc[t] = "gt_while" /\ pc'[t] = "gt_write")]_vars

\* C12: from the start of a worker thread until it has exited, the device
\* handle is not assigned, released or cleared by the UI thread: no step
\* taken while a worker is alive changes self.device.
C12_HandleOwnedByWorker ==
    [][(\E t \in Threads : pc[t] \notin {"unborn", "done"}) => device' = device]_vars

\* C13: a write error or a read error other than the timeout takes the worker
\* out of the loop to the finally block; when a worker leaves generate_traffic
\* through the finally block the running flag is false, and the flag becomes
\* true again only by start_traffic after a find_device that succeeded.
C13_ErrorClearsRunning ==
    [][/\ \A t \in Threads :
             /\ (pc[t] \in {"gt_write", "gt_read"} /\ pc'[t] # pc[t]
                   /\ raised'[t] \notin {NoError, USBError(TIMEOUT_ERRNO)})
                => pc'[t] = "gt_finally"
             /\ (pc[t] = "gt_write" /\ raised'[t] = USBError(TIMEOUT_ERRNO))
                => pc'[t] = "gt_finally"
             /\ (pc[t] = "gt_finally" /\ pc'[t] = "done") => ~running'
       /\ (~running /\ running') => (ui_pc = "st_run" /\ find_result = "Configured")
      ]_vars

\* C13 witness: the only worker started has counted a packet and has ended
\* with no stop requested (the Stop button is still enabled), so an error
\* ended its loop; the running flag is false.
C13_Witness ==
    /\ traffic_thread = 1
    /\ pc[1] = "done"
    /\ packet_count >= 1
    /\ ui_pc = "idle"
    /\ stop_btn = "normal"
    /\ ~running

\* The positions of the UI thread inside find_device.
FindPcs == {"fd_enum", "fd_lookup", "fd_config", "fd_false"}

\* C14: start_traffic sets the running flag and starts a worker thread only
\* after find_device returned True; when backend setup, the lookup or the
\* configuration fails it returns to idle without a retry, leaving the
\* running flag false, the worker threads and the counters as they were and
\* the Start button enabled.
C14_StartOnlyAfterFind ==
    /\ [](/\ ui_pc \in FindPcs => (~running /\ start_btn = "normal")
          /\ ui_pc \in {"st_run", "st_thread"} => device = Target
          /\ ui_pc = "st_run" => find_result = "Configured")
    /\ [][/\ (~running /\ running') => ui_pc = "st_run"
          /\ (traffic_thread' # traffic_thread \/ \E t \in Threads :
                  pc[t] = "unborn" /\ pc'[t] # "unborn")
             => (ui_pc = "st_thread" /\ traffic_thread' = traffic_thread + 1)
          /\ (ui_pc = "fd_false" /\ ui_pc' # ui_pc)
             => /\ ui_pc' = "idle"
                /\ ~running'
                /\ start_btn' = "normal"
                /\ UNCHANGED <<traffic_thread, pc, packet_count, byte_count,
                               stop_btn>>
      ]_vars

\* C14 witness: a start attempt got past the backend setup and failed at the
\* lookup or the configuration: the UI is idle again with no worker ever
\* started, the running flag false and the Start button enabled.
C14_Witness ==
    /\ ui_pc = "idle"
    /\ setup_complete
    /\ traffic_thread = 0
    /\ \A t \in Threads : pc[t] = "unborn"
    /\ ~running
    /\ start_btn = "normal"
    /\ packet_count = 0

\* C15: stop_traffic does not wait for the worker: its release step can be
\* taken wherever the worker threads are, clears the handle and moves no
\* worker, so the handle can be cleared under a worker that is in the middle
\* of an iteration (the witness is such a state).
C15_StopDoesNotJoin ==
    /\ [](ui_pc = "sp_release" => ENABLED StopRelease)
    /\ [][(ui_pc = "sp_release" /\ ui_pc' # ui_pc) => (device' = None /\ pc' = pc)]_vars

\* C15 witness: stop_traffic has returned with the handle cleared while a
\* worker has written its packet and is about to read from the IN endpoint.
C15_Witness ==
    /\ ui_pc \in {"idle", "closed"}
    /\ device = None
    /\ \E t \in Threads : pc[t] = "gt_read" /\ ep_in[t] # None /\ written[t] > 0

\* C17: a worker left over from an earlier session (a later worker has been
\* started) never clears the running flag that the new session has set: its
\* finally block does not take the flag from true to false.
C17_LeftoverKeepsRunning ==
    [][\A t \in Threads :
          (t < traffic_thread /\ pc[t] = "gt_finally" /\ pc'[t] = "done" /\ running)
             => running']_vars

\* C18: in every reachable state, self.device is None implies the running
\* flag is false; so the return of lines 133-135, which skips the finally
\* block, is only taken with the running flag false and leaves it false.
C18_NoDeviceNotRunning ==
    /\ [](device = None => ~running)
    /\ [][\A t \in Threads :
             (pc[t] = "gt_check" /\ pc'[t] = "done") => (~running /\ ~running')]_vars

\* C18 witness: a worker started by a session that has since been stopped is
\* at the test of line 133 with the handle cleared and the flag false.
C18_Witness ==
    /\ device = None
    /\ ~running
    /\ \E t \in Threads : pc[t] = "gt_check"

\* C19: whenever the UI thread is between callbacks, exactly one of the
\* Start and Stop buttons is enabled, and if the running flag is true it is
\* the Stop button; the Start handler only ever begins with the flag false.
C19_ButtonsExclusive ==
    /\ [](ui_pc = "idle" =>
            /\ (start_btn = "normal") # (stop_btn = "normal")
            /\ running => (start_btn = "disabled" /\ stop_btn = "normal"))
    /\ [][(ui_pc = "idle" /\ ui_pc' \in FindPcs) => ~running]_vars

\* C19 witness: a session is running, the UI thread is between callbacks,
\* Start is disabled and Stop is enabled.
C19_Witness ==
    /\ ui_pc = "idle"
    /\ running
    /\ traffic_thread >= 1
    /\ start_btn = "disabled"
    /\ stop_btn = "normal"

\* The number a label shows: the value of its decimal digits.
RECURSIVE Shown(_)
Shown(label) ==
    IF label = <<>>
    THEN 0
    ELSE LET last == label[Len(label)]
             d == CHOOSE k \in 0..9 : digits[k + 1] = last
         IN 10 * Shown(SubSeq(label, 1, Len(label) - 1)) + d

\* C16 (safety part): the displayed packet and byte counts never exceed the
\* counters and never decrease, and the status label only changes to what the
\* running flag says at that poll.
C16_DisplayNeverAhead ==
    /\ [](Shown(packet_label) <= packet_count /\ Shown(byte_label) <= byte_count)
    /\ [][/\ Shown(packet_label') >= Shown(packet_label)
          /\ Shown(byte_label') >= Shown(byte_label)
          /\ status_label' # status_label =>
                 status_label' = (IF running THEN "Running" ELSE "Ready")]_vars

====
